---- MODULE Spec2Model ----
(***************************************************************************)
(* charinfo: a model of src/main.rs (the stream driver CharInfo, the       *)
(* classifier CharType, the renderers CharDisplay and NumDisplay, the      *)
(* startup in main) and of src/options.rs (Options::getopts and Misfire).  *)
(*                                                                         *)
(* Text is modelled as a sequence of Unicode scalar values, so that a      *)
(* format string, a decimal or hexadecimal conversion and an embedded raw  *)
(* character are all what the code writes, character by character.         *)
(***************************************************************************)
EXTENDS Integers, Sequences, FiniteSets

VARIABLES
    pc,            \* main.rs: "start", "running", "done" (input exhausted), "exited" (misfire)
    args,          \* the command line handed to getopts
    options,       \* main.rs Options {bytes, show_names} held by CharInfo
    exit_status,   \* the status given to env::set_exit_status (0 when never set)
    count,         \* CharInfo.count
    pulled,        \* how many decode outcomes the loop has pulled from the input
    out,           \* everything sent to the terminal, in order
    hist,          \* history: per pulled outcome, the outcome, the counter before it, its slice of out
    fin,           \* pure functions: the character handed to them
    fdone,         \* pure functions: which of them have been applied to fin
    fout,          \* pure functions: their results
    parsed         \* options.rs: the result of Options::getopts(args)

vars == <<pc, args, options, exit_status, count, pulled, out, hist, fin, fdone, fout, parsed>>

-----------------------------------------------------------------------------
(* Bounds of the model *)

\* The longest input, in decode outcomes, a run pulls.
MaxLen == 3

\* The most positional (free) arguments on a command line.
MaxFree == 2

-----------------------------------------------------------------------------
(* Characters *)

\* The scalar values handed to the pure functions: all of 0..0xAC (C0, ASCII,
\* DEL, C1, the start of Latin-1), the whole Combining Diacritical Marks block
\* with its two neighbours, and the boundaries of the UTF-8 lengths and of the
\* scalar value range (the surrogates 0xD800..0xDFFF are no char).
Chars ==
    (0 .. 172) \cup {233, 255} \cup (767 .. 880)
        \cup {2047, 2048, 8203, 8364, 20013, 55295, 57344, 65533, 65535,
              65536, 128512, 1114111}

\* The characters a modelled input stream is made of: BEL (Control), 'A',
\* U+00E9 (two bytes), U+0301 (Combining), U+20AC (three bytes), U+1F600
\* (four bytes, two columns).
StreamChars == {7, 65, 233, 769, 8364, 128512}

\* The messages a decode error of the input displays as (E: fmt::Display):
\* "invalid utf-8" and "eof".
Msgs ==
    { <<105, 110, 118, 97, 108, 105, 100, 32, 117, 116, 102, 45, 56>>,
      <<101, 111, 102>> }

\* Option<T>
None == [some |-> FALSE, v |-> <<>>]
Some(x) == [some |-> TRUE, v |-> x]
NoneNum == [some |-> FALSE, v |-> 0]

-----------------------------------------------------------------------------
(* std::fmt conversions *)

\* "{}" of an unsigned integer: its decimal digits.
RECURSIVE Dec(_)
Dec(n) ==
    IF n < 10 THEN <<48 + n>> ELSE Dec(n \div 10) \o <<48 + (n % 10)>>

\* "{:x}" of an unsigned integer: its lowercase hexadecimal digits.
RECURSIVE LowerHex(_)
LowerHex(n) ==
    LET digit(d) == IF d < 10 THEN 48 + d ELSE 97 + (d - 10)
    IN  IF n < 16 THEN <<digit(n)>> ELSE LowerHex(n \div 16) \o <<digit(n % 16)>>

\* PadLeft gone wrong: "{:F<w}", left-aligned, filled on the right.
PadLeft_left(s, w, fill) ==
    IF Len(s) >= w THEN s ELSE s \o [i \in 1 .. (w - Len(s)) |-> fill]

\* "{:F>w}": right-aligned in a field of width w, filled on the left with F;
\* a text longer than the field is written whole.
PadLeft(s, w, fill) ==
    IF Len(s) >= w THEN s ELSE [i \in 1 .. (w - Len(s)) |-> fill] \o s

-----------------------------------------------------------------------------
(* Collaborators: core::char, unicode_width, unicode_names *)

\* is_control gone wrong: the C0 controls only, DEL and C1 forgotten.
is_control_c0(c) == c \in 0 .. 31

\* char::is_control: the general category Cc.
is_control(c) == c \in (0 .. 31) \cup (127 .. 159)

\* char::len_utf8
len_utf8(c) ==
    IF c < 128 THEN 1 ELSE IF c < 2048 THEN 2 ELSE IF c < 65536 THEN 3 ELSE 4

\* char::encode_utf8 into a buffer of four bytes: the buffer afterwards.
encode_utf8(c) ==
    IF c < 128 THEN <<c, 0, 0, 0>>
    ELSE IF c < 2048 THEN <<192 + (c \div 64), 128 + (c % 64), 0, 0>>
    ELSE IF c < 65536 THEN
        <<224 + (c \div 4096), 128 + ((c \div 64) % 64), 128 + (c % 64), 0>>
    ELSE
        <<240 + (c \div 262144), 128 + ((c \div 4096) % 64),
          128 + ((c \div 64) % 64), 128 + (c % 64)>>

\* UnicodeWidthChar::width on the characters of Chars: None for a control
\* character, 0 for NUL, the combining marks and ZERO WIDTH SPACE, 2 for the
\* wide U+4E2D and U+1F600, 1 for the rest.
width(c) ==
    IF c = 0 THEN [some |-> TRUE, v |-> 0]
    ELSE IF is_control(c) THEN NoneNum
    ELSE IF c \in (768 .. 879) \cup {8203} THEN [some |-> TRUE, v |-> 0]
    ELSE IF c \in {20013, 128512} THEN [some |-> TRUE, v |-> 2]
    ELSE [some |-> TRUE, v |-> 1]

\* unicode_names::name on the characters of StreamChars: a control character
\* has no name.
name(c) ==
    CASE c = 65 -> Some(<<76, 65, 84, 73, 78, 32, 67, 65, 80, 73, 84, 65, 76,
                          32, 76, 69, 84, 84, 69, 82, 32, 65>>)
      [] c = 233 -> Some(<<76, 65, 84, 73, 78, 32, 83, 77, 65, 76, 76, 32, 76,
                           69, 84, 84, 69, 82, 32, 69, 32, 87, 73, 84, 72, 32,
                           65, 67, 85, 84, 69>>)
      [] c = 769 -> Some(<<67, 79, 77, 66, 73, 78, 73, 78, 71, 32, 65, 67, 85,
                           84, 69, 32, 65, 67, 67, 69, 78, 84>>)
      [] c = 8364 -> Some(<<69, 85, 82, 79, 32, 83, 73, 71, 78>>)
      [] c = 128512 -> Some(<<71, 82, 73, 78, 78, 73, 78, 71, 32, 70, 65, 67, 69>>)
      [] OTHER -> None

-----------------------------------------------------------------------------
(* CharType, CharDisplay, NumDisplay *)

\* CharType::of gone wrong: the combining range closed at 0x370.
CharType_of_inclusive(c) ==
    LET num == c
    IN  IF is_control(c) THEN "Control"
        ELSE IF num >= 768 /\ num <= 880 THEN "Combining"
        ELSE "Normal"

CharType_of(c) ==
    LET num == c
    IN  IF is_control(c) THEN "Control"
        ELSE IF num >= 768 /\ num < 880 THEN "Combining"
        ELSE "Normal"

\* CharDisplay gone wrong: the first rule stops short of 9.
CharDisplay_lt9(c) ==
    LET number == c
    IN  IF number < 9 THEN <<32, 35>> \o Dec(number) \o <<32>>
        ELSE IF number <= 31 THEN <<32, 35>> \o Dec(number)
        ELSE IF number >= 768 /\ number < 880 THEN <<32, 39, 32, c, 39>>
        ELSE IF width(c) = [some |-> TRUE, v |-> 1] THEN <<32, 39, c, 39>>
        ELSE <<39, c, 39>>

\* CharDisplay gone wrong: the first rule writes no trailing space.
CharDisplay_untrailed(c) ==
    LET number == c
    IN  IF number <= 9 THEN <<32, 35>> \o Dec(number)
        ELSE IF number <= 31 THEN <<32, 35>> \o Dec(number)
        ELSE IF number >= 768 /\ number < 880 THEN <<32, 39, 32, c, 39>>
        ELSE IF width(c) = [some |-> TRUE, v |-> 1] THEN <<32, 39, c, 39>>
        ELSE <<39, c, 39>>

CharDisplay(c) ==
    LET number == c
    IN  IF number <= 9 THEN <<32, 35>> \o Dec(number) \o <<32>>
        ELSE IF number <= 31 THEN <<32, 35>> \o Dec(number)
        ELSE IF number >= 768 /\ number < 880 THEN <<32, 39, 32, c, 39>>
        ELSE IF width(c) = [some |-> TRUE, v |-> 1] THEN <<32, 39, c, 39>>
        ELSE <<39, c, 39>>

\* The rest of NumDisplay's loop from index on (indices count from 0, as in
\* the source; the model's sequences count from 1).
RECURSIVE NumDisplayFrom(_, _, _)
NumDisplayFrom(buffer, index, bytes_written) ==
    IF index >= bytes_written THEN <<>>
    ELSE <<32>> \o PadLeft(LowerHex(buffer[index + 1]), 2, 48)
             \o NumDisplayFrom(buffer, index + 1, bytes_written)

\* NumDisplay gone wrong: the first byte written as "{:x}", not zero-padded.
NumDisplay_unpadded(c) ==
    LET buffer == encode_utf8(c)
        bytes_written == len_utf8(c)
    IN  LowerHex(buffer[1]) \o NumDisplayFrom(buffer, 1, bytes_written)

NumDisplay(c) ==
    LET buffer == encode_utf8(c)
        bytes_written == len_utf8(c)
    IN  PadLeft(LowerHex(buffer[1]), 2, 48) \o NumDisplayFrom(buffer, 1, bytes_written)

-----------------------------------------------------------------------------
(* Command lines, Options::getopts and Misfire *)

FlagNames == {"bytes", "names", "scripts", "widths", "version", "help"}

\* A command line: the flags present on it, whether getopts rejects it for
\* another reason (an unknown option, an option given twice), and its
\* positional arguments, here numbered 1..n.
Args ==
    [flags : SUBSET FlagNames, malformed : BOOLEAN,
     free : {[i \in 1 .. n |-> i] : n \in 0 .. MaxFree}]

NoOptions == [bytes |-> FALSE, show_names |-> FALSE]

NoFlags ==
    [bytes |-> FALSE, show_names |-> FALSE, show_scripts |-> FALSE, show_widths |-> FALSE]

\* Result<Options, Misfire> of src/main.rs: the option set knows -b, -n,
\* --version and -?, so getopts fails on --scripts and --widths too; the free
\* arguments are never looked at.
main_getopts(a) ==
    IF a.malformed \/ a.flags \cap {"scripts", "widths"} # {} THEN
        [ok |-> FALSE, misfire |-> "InvalidOptions", options |-> NoOptions]
    ELSE IF "help" \in a.flags THEN
        [ok |-> FALSE, misfire |-> "Help", options |-> NoOptions]
    ELSE IF "version" \in a.flags THEN
        [ok |-> FALSE, misfire |-> "Version", options |-> NoOptions]
    ELSE
        [ok |-> TRUE, misfire |-> "none",
         options |-> [bytes |-> "bytes" \in a.flags, show_names |-> "names" \in a.flags]]

\* Result<Options, Misfire> of src/options.rs.
Options_getopts(a) ==
    LET fail(m) == [ok |-> FALSE, misfire |-> m, flags |-> NoFlags, input_file_name |-> NoneNum]
    IN  IF a.malformed THEN fail("InvalidOptions")
        ELSE IF "help" \in a.flags THEN fail("Help")
        ELSE IF "version" \in a.flags THEN fail("Version")
        ELSE IF Len(a.free) > 1 THEN fail("Help")
        ELSE
            [ok |-> TRUE, misfire |-> "none",
             flags |-> [bytes |-> "bytes" \in a.flags,
                        show_names |-> "names" \in a.flags,
                        show_scripts |-> "scripts" \in a.flags,
                        show_widths |-> "widths" \in a.flags],
             input_file_name |->
                 IF Len(a.free) = 0 THEN NoneNum ELSE [some |-> TRUE, v |-> a.free[1]]]

\* Misfire::exit_status (the same in both files).
Misfire_exit_status(m) == IF m = "Help" THEN 2 ELSE 3

-----------------------------------------------------------------------------
(* What reaches the terminal: print! and the term crate's fg and reset *)

print(text) == [op |-> "print", color |-> "-", text |-> text]
fg(color) == [op |-> "fg", color |-> color, text |-> <<>>]
reset == [op |-> "reset", color |-> "-", text |-> <<>>]
\* println!("{}", misfire): the text is getopts' (its failure message, its
\* usage) or the version line; only which misfire was printed is kept.
println_misfire(m) == [op |-> "println", color |-> m, text |-> <<>>]

-----------------------------------------------------------------------------
(* CharInfo *)

\* CharInfo::new: the counter a run starts from.
CharInfo_new(opts) == IF opts.bytes THEN 0 ELSE 1

\* run gone wrong: the styling reset only after the line terminator.
run_Ok_late_reset(opts, cnt, c) ==
    LET char_type == CharType_of(c)
        colour == IF char_type = "Control" THEN <<fg("GREEN")>>
                  ELSE IF char_type = "Combining" THEN <<fg("MAGENTA")>>
                  ELSE <<>>
        record == <<print(PadLeft(Dec(cnt), 5, 32) \o <<58, 32>> \o CharDisplay(c)
                          \o <<32, 61, 32>> \o NumDisplay(c))>>
        named == IF opts.show_names /\ name(c).some
                 THEN <<print(<<32, 40>> \o name(c).v \o <<41>>)>>
                 ELSE <<>>
        uncolour == IF char_type # "Normal" THEN <<reset>> ELSE <<>>
    IN  colour \o record \o named \o <<print(<<10>>)>> \o uncolour

\* run, the Ok(c) arm: what it sends to the terminal, in order.
run_Ok(opts, cnt, c) ==
    LET char_type == CharType_of(c)
        colour == IF char_type = "Control" THEN <<fg("GREEN")>>
                  ELSE IF char_type = "Combining" THEN <<fg("MAGENTA")>>
                  ELSE <<>>
        record == <<print(PadLeft(Dec(cnt), 5, 32) \o <<58, 32>> \o CharDisplay(c)
                          \o <<32, 61, 32>> \o NumDisplay(c))>>
        named == IF opts.show_names /\ name(c).some
                 THEN <<print(<<32, 40>> \o name(c).v \o <<41>>)>>
                 ELSE <<>>
        uncolour == IF char_type # "Normal" THEN <<reset>> ELSE <<>>
    IN  colour \o record \o named \o uncolour \o <<print(<<10>>)>>

\* run gone wrong: the counter advanced by 1 whatever the mode.
run_count_chars(opts, cnt, c) == cnt + 1

\* run, the Ok(c) arm: the counter afterwards.
run_count(opts, cnt, c) == cnt + (IF opts.bytes THEN len_utf8(c) ELSE 1)

\* run gone wrong: the Err(e) arm prints the message without its "Error: ".
run_Err_bare(msg) == <<print(msg \o <<10>>)>>

\* run, the Err(e) arm: println!("Error: {}", e).
run_Err(msg) == <<print(<<69, 114, 114, 111, 114, 58, 32>> \o msg \o <<10>>)>>

Ok(c) == [ok |-> TRUE, c |-> c, msg |-> <<>>]
Err(msg) == [ok |-> FALSE, c |-> 0, msg |-> msg]

-----------------------------------------------------------------------------
(* The program: main, then the loop of CharInfo::run *)

Unparsed ==
    [ok |-> FALSE, misfire |-> "unparsed", flags |-> NoFlags, input_file_name |-> NoneNum]

NoResults == [of |-> "-", glyph |-> <<>>, bytes |-> <<>>]

Idle ==
    /\ pc = "start"
    /\ options = NoOptions
    /\ exit_status = 0
    /\ count = 0
    /\ pulled = 0
    /\ out = <<>>
    /\ hist = <<>>
    /\ fdone = {}
    /\ fout = NoResults
    /\ parsed = Unparsed

Init ==
    /\ Idle
    /\ args \in Args
    /\ fin = 0

\* main, getopts returns Ok(options): CharInfo::new(options, stdin).run() begins.
main_Ok ==
    /\ pc = "start"
    /\ main_getopts(args).ok
    /\ options' = main_getopts(args).options
    /\ count' = CharInfo_new(main_getopts(args).options)
    /\ pc' = "running"
    /\ UNCHANGED <<args, exit_status, pulled, out, hist, fin, fdone, fout, parsed>>

\* main, getopts returns Err(misfire): print it and set the exit status.
main_Err ==
    /\ pc = "start"
    /\ ~main_getopts(args).ok
    /\ out' = out \o <<println_misfire(main_getopts(args).misfire)>>
    /\ exit_status' = Misfire_exit_status(main_getopts(args).misfire)
    /\ pc' = "exited"
    /\ UNCHANGED <<args, options, count, pulled, hist, fin, fdone, fout, parsed>>

\* One iteration of the loop of run, the input yielding Ok(c).
run_char(c) ==
    /\ pc = "running"
    /\ pulled < MaxLen
    /\ out' = out \o run_Ok(options, count, c)
    /\ count' = run_count(options, count, c)
    /\ pulled' = pulled + 1
    /\ hist' = Append(hist, [unit |-> Ok(c), ordinal |-> count,
                             from |-> Len(out) + 1, to |-> Len(out')])
    /\ UNCHANGED <<pc, args, options, exit_status, fin, fdone, fout, parsed>>

\* One iteration of the loop of run, the input yielding Err(e).
run_error(msg) ==
    /\ pc = "running"
    /\ pulled < MaxLen
    /\ out' = out \o run_Err(msg)
    /\ pulled' = pulled + 1
    /\ hist' = Append(hist, [unit |-> Err(msg), ordinal |-> count,
                             from |-> Len(out) + 1, to |-> Len(out')])
    /\ UNCHANGED <<pc, args, options, exit_status, count, fin, fdone, fout, parsed>>

\* The input is exhausted: the loop and run end.
run_end ==
    /\ pc = "running"
    /\ pc' = "done"
    /\ UNCHANGED <<args, options, exit_status, count, pulled, out, hist, fin, fdone, fout, parsed>>

Next ==
    \/ main_Ok
    \/ main_Err
    \/ \E c \in StreamChars : run_char(c)
    \/ \E msg \in Msgs : run_error(msg)
    \/ run_end

Spec == Init /\ [][Next]_vars

-----------------------------------------------------------------------------
(* The pure functions, each applied to a character of Chars *)

InitFn ==
    /\ Idle
    /\ args = [flags |-> {}, malformed |-> FALSE, free |-> <<>>]
    /\ fin \in Chars

apply_of ==
    /\ "of" \notin fdone
    /\ fdone' = fdone \cup {"of"}
    /\ fout' = [fout EXCEPT !.of = CharType_of(fin)]
    /\ UNCHANGED <<pc, args, options, exit_status, count, pulled, out, hist, fin, parsed>>

apply_CharDisplay ==
    /\ "glyph" \notin fdone
    /\ fdone' = fdone \cup {"glyph"}
    /\ fout' = [fout EXCEPT !.glyph = CharDisplay(fin)]
    /\ UNCHANGED <<pc, args, options, exit_status, count, pulled, out, hist, fin, parsed>>

apply_NumDisplay ==
    /\ "bytes" \notin fdone
    /\ fdone' = fdone \cup {"bytes"}
    /\ fout' = [fout EXCEPT !.bytes = NumDisplay(fin)]
    /\ UNCHANGED <<pc, args, options, exit_status, count, pulled, out, hist, fin, parsed>>

NextFn ==
    \/ apply_of
    \/ apply_CharDisplay
    \/ apply_NumDisplay

SpecFn == InitFn /\ [][NextFn]_vars

-----------------------------------------------------------------------------
(* Options::getopts of src/options.rs, applied to a command line *)

apply_getopts ==
    /\ parsed = Unparsed
    /\ parsed' = Options_getopts(args)
    /\ exit_status' =
           IF Options_getopts(args).ok THEN exit_status
           ELSE Misfire_exit_status(Options_getopts(args).misfire)
    /\ UNCHANGED <<pc, args, options, count, pulled, out, hist, fin, fdone, fout>>

NextOpts == apply_getopts

SpecOpts == Init /\ [][NextOpts]_vars

-----------------------------------------------------------------------------
(* Reading the terminal output back *)

\* The text a sequence of terminal events prints, styling requests aside.
RECURSIVE TextOf(_)
TextOf(evs) == IF evs = <<>> THEN <<>> ELSE Head(evs).text \o TextOf(Tail(evs))

\* The terminal events one pulled decode outcome caused.
Slice(h) == SubSeq(out, h.from, h.to)

\* The first position of ch in s, 0 when s has none.
FirstIndex(s, ch) ==
    LET at == {i \in 1 .. Len(s) : s[i] = ch}
    IN  IF at = {} THEN 0 ELSE CHOOSE i \in at : \A j \in at : i <= j

\* The number a sequence of decimal digits writes.
RECURSIVE ParseDec(_)
ParseDec(s) ==
    IF s = <<>> THEN 0
    ELSE 10 * ParseDec(SubSeq(s, 1, Len(s) - 1)) + (s[Len(s)] - 48)

IsSpace(x) == x = 32
NotSpace(x) == x # 32

\* The ordinal a character record shows: the number before its first colon,
\* -1 when what stands there is not spaces followed by decimal digits.
PrintedOrdinal(h) ==
    LET t == TextOf(Slice(h))
        k == FirstIndex(t, 58)
        field == SubSeq(t, 1, k - 1)
        digits == SelectSeq(field, NotSpace)
    IN  IF /\ k > 1
           /\ digits # <<>>
           /\ \A i \in 1 .. Len(digits) : digits[i] \in 48 .. 57
           /\ field = SelectSeq(field, IsSpace) \o digits
        THEN ParseDec(digits)
        ELSE -1

\* The positions in hist of the character records.
CharRecords == {i \in DOMAIN hist : hist[i].unit.ok}

\* The positions in hist of the decode errors.
ErrorRecords == {i \in DOMAIN hist : ~hist[i].unit.ok}

\* The length of the UTF-8 encoding of a scalar value, by the standard's ranges.
Utf8Length(c) ==
    CASE c \in 0 .. 127 -> 1
      [] c \in 128 .. 2047 -> 2
      [] c \in 2048 .. 65535 -> 3
      [] c \in 65536 .. 1114111 -> 4

\* The foreground the terminal is left with after the first k events of out.
StyleAfter(k) ==
    LET S == {j \in 1 .. k : out[j].op \in {"fg", "reset"}}
        last == CHOOSE j \in S : \A i \in S : i <= j
    IN  IF S = {} THEN "default"
        ELSE IF out[last].op = "reset" THEN "default" ELSE out[last].color

-----------------------------------------------------------------------------
(* Claims about the stream driver, checked under Spec *)

\* C1: the ordinals printed on the character records: the first is 0 in
\* byte-count mode and 1 in character mode; each later one is the previous
\* record's ordinal plus the UTF-8 length (1..4) of the previous record's
\* character in byte-count mode, plus exactly 1 in character mode; decode
\* errors in between add nothing; so the ordinals strictly increase and the
\* counter is never reset.
C1_Ordinals ==
    /\ \A i \in CharRecords :
        /\ PrintedOrdinal(hist[i]) >= 0
        /\ (\A j \in CharRecords : j >= i)
               => PrintedOrdinal(hist[i]) = (IF options.bytes THEN 0 ELSE 1)
        /\ \A j \in CharRecords :
               (j < i /\ \A k \in CharRecords : ~(j < k /\ k < i))
                   => /\ PrintedOrdinal(hist[i]) =
                             PrintedOrdinal(hist[j])
                                 + (IF options.bytes THEN Utf8Length(hist[j].unit.c) ELSE 1)
                      /\ Utf8Length(hist[j].unit.c) \in 1 .. 4
        /\ \A j \in CharRecords :
               j < i => PrintedOrdinal(hist[j]) < PrintedOrdinal(hist[i])
        /\ count > PrintedOrdinal(hist[i])
    /\ \A i \in DOMAIN hist : hist[i].ordinal <= count
    /\ \A i, j \in DOMAIN hist : i < j => hist[i].ordinal <= hist[j].ordinal

\* C1 witness: in byte-count mode, three character records with a decode
\* error in between, the first of them longer than one byte.
C1_Witness ==
    /\ options.bytes
    /\ Len(hist) = 3
    /\ hist[1].unit.ok /\ hist[1].unit.c = 8364
    /\ ~hist[2].unit.ok
    /\ hist[3].unit.ok
    /\ PrintedOrdinal(hist[3]) = 3

\* C2: a decode error prints exactly the line "Error: <msg>", leaves the
\* counter as it was, classifies nothing and requests no styling, and the
\* run goes on: it is still running (or ends with the input), never exits
\* with a status, every outcome pulled so far has its own output in the order
\* pulled, and while input remains the next outcome is processed.
C2_DecodeError ==
    /\ \A i \in ErrorRecords :
        /\ Slice(hist[i]) =
               <<[op |-> "print", color |-> "-",
                  text |-> <<69, 114, 114, 111, 114, 58, 32>> \o hist[i].unit.msg \o <<10>>]>>
        /\ hist[i].ordinal = (IF i < Len(hist) THEN hist[i + 1].ordinal ELSE count)
        /\ pc \in {"running", "done"}
        /\ exit_status = 0
    /\ ErrorRecords # {} =>
        /\ Len(hist) = pulled
        /\ \A i \in DOMAIN hist :
            /\ hist[i].from = (IF i = 1 THEN 1 ELSE hist[i - 1].to + 1)
            /\ hist[i].from <= hist[i].to
        /\ hist # <<>> => hist[Len(hist)].to = Len(out)
        /\ (pc = "running" /\ pulled < MaxLen) =>
               /\ ENABLED (\E c \in StreamChars : run_char(c))
               /\ ENABLED (\E msg \in Msgs : run_error(msg))

\* C2 witness: a decode error, then a character record after it.
C2_Witness ==
    /\ Len(hist) >= 2
    /\ ~hist[1].unit.ok
    /\ hist[2].unit.ok
    /\ PrintedOrdinal(hist[2]) = 1

\* C3: the styling of a character record follows from its category alone:
\* Control sets the foreground green before any text and resets once after
\* all the text (the name included) and before the line terminator,
\* Combining the same with magenta, Normal requests no styling at all; so at
\* every line boundary, and when the run is done, the terminal is reset.
C3_Styling ==
    /\ \A i \in CharRecords :
        LET sl == Slice(hist[i])
            cat == CharType_of(hist[i].unit.c)
            styled == {k \in 1 .. Len(sl) : sl[k].op # "print"}
        IN  /\ cat = "Normal" => styled = {}
            /\ cat # "Normal" =>
                /\ Len(sl) >= 4
                /\ styled = {1, Len(sl) - 1}
                /\ sl[1] = [op |-> "fg",
                            color |-> (IF cat = "Control" THEN "GREEN" ELSE "MAGENTA"),
                            text |-> <<>>]
                /\ sl[Len(sl) - 1] = [op |-> "reset", color |-> "-", text |-> <<>>]
                /\ sl[Len(sl)].text = <<10>>
                /\ \A k \in 2 .. Len(sl) - 2 : FirstIndex(sl[k].text, 10) = 0
                /\ options.show_names /\ name(hist[i].unit.c).some => Len(sl) = 5
    /\ \A k \in 1 .. Len(out) :
           (out[k].op = "print" /\ FirstIndex(out[k].text, 10) # 0)
               => StyleAfter(k) = "default"
    /\ pc = "done" => StyleAfter(Len(out)) = "default"

\* C3 witness: a finished run with a Control, a Combining (named) and a
\* Normal record.
C3_Witness ==
    /\ pc = "done"
    /\ options.show_names
    /\ Len(hist) = 3
    /\ hist[1].unit = [ok |-> TRUE, c |-> 7, msg |-> <<>>]
    /\ hist[2].unit = [ok |-> TRUE, c |-> 769, msg |-> <<>>]
    /\ hist[3].unit = [ok |-> TRUE, c |-> 65, msg |-> <<>>]
    /\ Len(out) = 12

\* The last n characters of a text.
Suffix(t, n) == SubSeq(t, Len(t) - n + 1, Len(t))

\* C4: a decoded character c prints exactly one line: the counter before c
\* is counted, right-aligned in a field of width 5; ": "; render_glyph(c);
\* " = "; render_bytes(c); then " (<name>)" if and only if the names option
\* is on and the lookup has a name for c. "A" under the default options is
\* the line "    1:  'A' = 41"; U+20AC with names ends in
\* " = e2 82 ac (EURO SIGN)".
C4_RecordLine ==
    \A i \in CharRecords :
        LET h == hist[i]
            c == h.unit.c
            t == TextOf(Slice(h))
            d == Dec(h.ordinal)
            field == IF Len(d) < 5 THEN [k \in 1 .. 5 - Len(d) |-> 32] \o d ELSE d
            named == IF options.show_names /\ name(c).some
                     THEN <<32, 40>> \o name(c).v \o <<41>>
                     ELSE <<>>
        IN  /\ t = field \o <<58, 32>> \o CharDisplay(c) \o <<32, 61, 32>>
                     \o NumDisplay(c) \o named \o <<10>>
            /\ FirstIndex(t, 10) = Len(t)
            /\ h.ordinal = PrintedOrdinal(h)
            /\ (c = 65 /\ i = 1 /\ ~options.bytes /\ ~options.show_names) =>
                   t = <<32, 32, 32, 32, 49, 58, 32, 32, 39, 65, 39, 32, 61, 32, 52, 49, 10>>
            /\ (c = 8364 /\ options.show_names) =>
                   Suffix(t, 24) = <<32, 61, 32, 101, 50, 32, 56, 50, 32, 97, 99, 32, 40,
                                     69, 85, 82, 79, 32, 83, 73, 71, 78, 41, 10>>
            /\ (c = 8364 /\ ~options.show_names) =>
                   Suffix(t, 12) = <<32, 61, 32, 101, 50, 32, 56, 50, 32, 97, 99, 10>>

\* C4 witness: with names on, U+20AC (which has a name) and then BEL (which
\* has none) have been printed.
C4_Witness ==
    /\ options.show_names
    /\ Len(hist) = 2
    /\ hist[1].unit = [ok |-> TRUE, c |-> 8364, msg |-> <<>>]
    /\ hist[2].unit = [ok |-> TRUE, c |-> 7, msg |-> <<>>]
    /\ Len(Slice(hist[1])) = 3
    /\ Len(Slice(hist[2])) = 4

\* The input was the single character BEL and the run is over.
OnlyBEL ==
    /\ pc = "done"
    /\ Len(hist) = 1
    /\ hist[1].unit = [ok |-> TRUE, c |-> 7, msg |-> <<>>]

\* The one record of OnlyBEL: coloured as Control (green before the text,
\* reset after it), and its text after the ordinal is rest.
BELRecord(rest) ==
    LET sl == Slice(hist[1])
        t == TextOf(sl)
    IN  /\ CharType_of(7) = "Control"
        /\ Len(sl) = 4
        /\ sl[1] = [op |-> "fg", color |-> "GREEN", text |-> <<>>]
        /\ sl[2].op = "print"
        /\ sl[3] = [op |-> "reset", color |-> "-", text |-> <<>>]
        /\ sl[4] = [op |-> "print", color |-> "-", text |-> <<10>>]
        /\ PrintedOrdinal(hist[1]) = (IF options.bytes THEN 0 ELSE 1)
        /\ SubSeq(t, FirstIndex(t, 58), Len(t)) = rest

\* C8, as stated: for the input BEL alone the one record has the glyph
\* " #7" with nothing after it (the line reads ":  #7 = 07"), is Control,
\* is coloured and reset, and its bytes are "07".
C8_AsStated ==
    OnlyBEL => BELRecord(<<58, 32, 32, 35, 55, 32, 61, 32, 48, 55, 10>>)

\* C8, amended: for the input BEL alone the one record has the glyph " #7 "
\* (leading space, '#', '7', one trailing space: the line reads
\* ":  #7  = 07"), is Control, is coloured and reset, and its bytes are "07".
C8_BEL ==
    OnlyBEL => BELRecord(<<58, 32, 32, 35, 55, 32, 32, 61, 32, 48, 55, 10>>)

\* C8 witness: the run over the single character BEL has ended.
C8_Witness == OnlyBEL /\ Len(out) = 4

-----------------------------------------------------------------------------
(* Claims about the pure functions, checked under SpecFn *)

\* C5: render_glyph is total and, first match winning: a value <= 9 gives
\* space, '#', the decimal value, space; 10..31 gives space, '#', the decimal
\* value; [0x300, 0x370) gives space, quote, space, the character, quote;
\* otherwise a measured width of exactly 1 gives space, quote, the character,
\* quote; otherwise (width 0, 2 or more, or none) quote, the character, quote.
C5_Glyph ==
    /\ "glyph" \notin fdone => ENABLED apply_CharDisplay
    /\ "glyph" \in fdone =>
        LET g == fout.glyph
            c == fin
            w == width(c)
        IN  /\ c <= 9 => g = <<32, 35, 48 + c, 32>>
            /\ c \in 10 .. 31 => g = <<32, 35, 48 + (c \div 10), 48 + (c % 10)>>
            /\ c \in 768 .. 879 => g = <<32, 39, 32, c, 39>>
            /\ (c > 31 /\ c \notin 768 .. 879 /\ w.some /\ w.v = 1) => g = <<32, 39, c, 39>>
            /\ (c > 31 /\ c \notin 768 .. 879 /\ ~(w.some /\ w.v = 1)) => g = <<39, c, 39>>

\* C5 witness: the glyph of the two-column U+4E2D has been rendered.
C5_Witness == "glyph" \in fdone /\ fin = 20013 /\ fout.glyph = <<39, 20013, 39>>

\* The scalar values of general category Cc: C0, DEL, C1.
ControlRange == (0 .. 31) \cup {127} \cup (128 .. 159)

\* The Combining Diacritical Marks block, [0x300, 0x370).
CombiningRange == 768 .. 879

\* C6: classify is total and gives exactly one of Control, Combining, Normal:
\* Control for a control character (C0, 0x7F, C1), else Combining in
\* [0x300, 0x370), else Normal; the two conditions never both hold, so the
\* order of the tests does not matter; below 0x20 is Control, 0x2FF and 0x370
\* are Normal, 0x300 and 0x36F are Combining.
C6_Classify ==
    /\ "of" \notin fdone => ENABLED apply_of
    /\ "of" \in fdone =>
        LET c == fin
            swapped == IF c \in CombiningRange THEN "Combining"
                       ELSE IF c \in ControlRange THEN "Control"
                       ELSE "Normal"
        IN  /\ fout.of \in {"Control", "Combining", "Normal"}
            /\ fout.of = "Control" <=> c \in ControlRange
            /\ fout.of = "Combining" <=> c \in CombiningRange
            /\ fout.of = "Normal" <=> c \notin ControlRange \cup CombiningRange
            /\ ~(is_control(c) /\ c \in CombiningRange)
            /\ fout.of = swapped
            /\ c < 32 => fout.of = "Control"
            /\ c \in {767, 880} => fout.of = "Normal"
            /\ c \in {768, 879} => fout.of = "Combining"

\* C6 witness: U+036F, the last combining mark, has been classified.
C6_Witness == "of" \in fdone /\ fin = 879 /\ fout.of = "Combining"

\* The value of a lowercase hexadecimal digit, -1 for any other character.
HexValue(x) ==
    IF x \in 48 .. 57 THEN x - 48 ELSE IF x \in 97 .. 102 THEN x - 97 + 10 ELSE -1

\* The scalar value a byte sequence is the UTF-8 encoding of, -1 when it is
\* not the (shortest, non-surrogate) encoding of any.
DecodeUtf8(b) ==
    LET cont(i) == b[i] \in 128 .. 191
        v == CASE Len(b) = 1 /\ b[1] \in 0 .. 127 -> b[1]
               [] Len(b) = 2 /\ b[1] \in 192 .. 223 /\ cont(2) ->
                      (b[1] - 192) * 64 + (b[2] - 128)
               [] Len(b) = 3 /\ b[1] \in 224 .. 239 /\ cont(2) /\ cont(3) ->
                      (b[1] - 224) * 4096 + (b[2] - 128) * 64 + (b[3] - 128)
               [] Len(b) = 4 /\ b[1] \in 240 .. 247 /\ cont(2) /\ cont(3) /\ cont(4) ->
                      (b[1] - 240) * 262144 + (b[2] - 128) * 4096
                          + (b[3] - 128) * 64 + (b[4] - 128)
               [] OTHER -> -1
        shortest == CASE Len(b) = 2 -> v >= 128
                      [] Len(b) = 3 -> v >= 2048
                      [] Len(b) = 4 -> v >= 65536
                      [] OTHER -> TRUE
    IN  IF v >= 0 /\ shortest /\ v <= 1114111 /\ v \notin 55296 .. 57343 THEN v ELSE -1

\* C7: render_bytes(c) is the 1..4 bytes of c's UTF-8 encoding, each as
\* exactly two lowercase hexadecimal digits, joined by single spaces, with
\* nothing before or after (length 3n-1 for n bytes); reading the pairs back
\* as bytes and decoding them gives c.
C7_Bytes ==
    /\ "bytes" \notin fdone => ENABLED apply_NumDisplay
    /\ "bytes" \in fdone =>
        LET t == fout.bytes
            n == (Len(t) + 1) \div 3
            bytes == [i \in 1 .. n |-> 16 * HexValue(t[3 * i - 2]) + HexValue(t[3 * i - 1])]
        IN  /\ n \in 1 .. 4
            /\ Len(t) = 3 * n - 1
            /\ n = Utf8Length(fin)
            /\ \A k \in 1 .. Len(t) :
                   IF k % 3 = 0 THEN t[k] = 32 ELSE HexValue(t[k]) >= 0
            /\ DecodeUtf8(bytes) = fin

\* C7 witness: the bytes of U+20AC have been rendered as "e2 82 ac".
C7_Witness ==
    "bytes" \in fdone /\ fin = 8364 /\ fout.bytes = <<101, 50, 32, 56, 50, 32, 97, 99>>

\* A glyph of the form '#<decimal of c>', with or without a trailing space.
HashForm(g, c) ==
    /\ Len(g) >= 3
    /\ g[1] = 32
    /\ g[2] = 35
    /\ LET digits == SelectSeq(SubSeq(g, 3, Len(g)), NotSpace)
       IN  /\ digits # <<>>
           /\ \A k \in 1 .. Len(digits) : digits[k] \in 48 .. 57
           /\ ParseDec(digits) = c
           /\ SubSeq(g, 3, Len(g)) \in {digits, digits \o <<32>>}

\* A glyph that carries the character itself between single quotes.
RawForm(g, c) == g \in {<<39, c, 39>>, <<32, 39, c, 39>>, <<32, 39, 32, c, 39>>}

\* C10: the glyph is the '#<decimal>' form exactly for the values 0..31 and
\* carries the raw character for every other value; so a Control character
\* has a '#<decimal>' glyph if and only if it is <= 31: U+007F and
\* U+0080..U+009F are Control and yet written raw between single quotes (by
\* the width rules), and no character that is not Control has a '#' glyph.
C10_HashGlyph ==
    ("of" \in fdone /\ "glyph" \in fdone) =>
        LET g == fout.glyph
            c == fin
        IN  /\ HashForm(g, c) <=> c <= 31
            /\ RawForm(g, c) <=> c > 31
            /\ fout.of = "Control" => (HashForm(g, c) <=> c <= 31)
            /\ c \in 127 .. 159 =>
                   /\ fout.of = "Control"
                   /\ g \in {<<39, c, 39>>, <<32, 39, c, 39>>}
            /\ fout.of # "Control" => ~HashForm(g, c)

\* C10 witness: DEL has been classified Control and rendered raw.
C10_Witness ==
    /\ fdone = {"of", "glyph"}
    /\ fin = 127
    /\ fout.of = "Control"
    /\ fout.glyph = <<39, 127, 39>>

-----------------------------------------------------------------------------
(* Claim about Options::getopts of src/options.rs, checked under SpecOpts *)

\* C9: on a command line with valid flags and neither help nor version,
\* more than one positional argument makes option parsing fail with the exit
\* status 3 (not the help status 2), and zero or one lets it succeed.
C9_TooManyFiles ==
    (/\ parsed # Unparsed
     /\ ~args.malformed
     /\ args.flags \cap {"help", "version"} = {})
        => IF Len(args.free) > 1
           THEN ~parsed.ok /\ exit_status = 3
           ELSE parsed.ok /\ exit_status = 0

====
